---- MODULE Spec2Model ----
(***************************************************************************)
(* Model of the worker pool and request router of load_balancer.py.        *)
(*                                                                         *)
(* One process per /hash request (hash_string), running on one asyncio     *)
(* event loop.  The pool is the three dictionaries of WorkerManager, which *)
(* always have the same keys: `workers' keeps the keys in dictionary       *)
(* (insertion) order, `request_counts' and `last_request_time' map them.   *)
(* Remote calls (branch, instance info + health probe, /hash dispatch,     *)
(* instance delete) are steps whose result is chosen by the environment.   *)
(* The snapshot deletion at the end of cleanup_workers touches no pool     *)
(* state and is left out.                                                  *)
(***************************************************************************)
EXTENDS Integers, Sequences, FiniteSets, TLC

\* ---- configuration (load_balancer.py 19-23 and 171); MAX_WORKERS,
\* REQUESTS_PER_WORKER and max_attempts are scaled down from 12, 16 and 30 ----
MAX_WORKERS == 2
REQUESTS_PER_WORKER == 1
DEFAULT_TIMEOUT == 30
WORKER_IDLE_TIMEOUT == 30
max_attempts == 2

\* ---- bounds of the model ----
NumRequests == 3
MaxInstances == 2
MaxTicks == 1
MaxCounted == 2
LiveRequests == 2

\* one step of the clock: just over the request deadline
TickStep == DEFAULT_TIMEOUT + 1

Requests == 1..NumRequests
Perm == 0
NoWorker == -1
NoTask == 0

VARIABLES
    workers,              \* keys of self.workers, in insertion order
    request_counts,       \* self.request_counts
    last_request_time,    \* self.last_request_time
    lock,                 \* holder of self.lock, or NoTask
    worker_creation_lock, \* holder of self.worker_creation_lock, or NoTask
    processed,            \* request_tracker.processed
    total,                \* request_tracker.total
    now,                  \* time.time()
    remote,               \* instances alive at the provisioning service
    next_id,              \* next instance id the service hands out
    delete_result,        \* results of the delete calls of the latest cleanup pass
    pc,                   \* position of each request's coroutine
    worker,               \* hash_string's local `worker' (a worker id)
    start_time,           \* hash_string's local `start_time'
    exc,                  \* exception raised in the current loop iteration
    resp,                 \* status of the response sent to the caller
    via,                  \* which block of get_or_create_worker returned
    instance_id,          \* create_worker's local `instance_id'
    attempt,              \* create_worker's loop counter
    todo,                 \* cleanup_workers' list(self.workers.keys()), rest
    after,                \* where the coroutine continues after cleanup
    failed                \* dispatches of the request that failed so far

vars == <<workers, request_counts, last_request_time, lock,
          worker_creation_lock, processed, total, now, remote, next_id,
          delete_result, pc, worker, start_time, exc, resp, via,
          instance_id, attempt, todo, after, failed>>

\* ---- helpers ----
Elems(s) == {s[i] : i \in 1..Len(s)}

SetMin(S) == CHOOSE x \in S : \A y \in S : x <= y

Remove(s, w) == SelectSeq(s, LAMBDA x : x # w)

DropKey(f, w) == [k \in (DOMAIN f) \ {w} |-> f[k]]

AddKey(f, w, v) == [k \in (DOMAIN f) \cup {w} |-> IF k = w THEN v ELSE f[k]]

\* the scan returning the last key below capacity instead of the first
FirstAvailable_MutLast(ws, rc) ==
    LET idx == {i \in 1..Len(ws) : rc[ws[i]] < REQUESTS_PER_WORKER}
    IN  IF idx = {} THEN NoWorker ELSE ws[-SetMin({-i : i \in idx})]

\* the scan with `count <= REQUESTS_PER_WORKER' in place of `<'
FirstAvailable_Mut(ws, rc) ==
    LET idx == {i \in 1..Len(ws) : rc[ws[i]] <= REQUESTS_PER_WORKER}
    IN  IF idx = {} THEN NoWorker ELSE ws[SetMin(idx)]

\* the `for worker_id, count in self.request_counts.items()' scan of
\* get_or_create_worker: the first key, in dictionary order, below capacity
FirstAvailable(ws, rc) ==
    LET idx == {i \in 1..Len(ws) : rc[ws[i]] < REQUESTS_PER_WORKER}
    IN  IF idx = {} THEN NoWorker ELSE ws[SetMin(idx)]

\* the min_count loop with `<=' in place of `<': the last key with the
\* minimum
LeastLoaded_MutTie(ws, rc) ==
    IF Len(ws) = 0 THEN Perm
    ELSE LET m == SetMin({rc[ws[i]] : i \in 1..Len(ws)})
         IN  ws[-SetMin({-i : i \in {j \in 1..Len(ws) : rc[ws[j]] = m}})]

\* the fallback returning the newest worker instead of the least loaded
LeastLoaded_Mut(ws, rc) == IF Len(ws) = 0 THEN Perm ELSE ws[Len(ws)]

\* the min_count loop: strict `<' keeps the first key with the minimum
LeastLoaded(ws, rc) ==
    IF Len(ws) = 0 THEN Perm
    ELSE LET m == SetMin({rc[ws[i]] : i \in 1..Len(ws)})
         IN  ws[SetMin({i \in 1..Len(ws) : rc[ws[i]] = m})]

\* request_counts after `self.request_counts[w] += 1'
Incremented(rc, w) == [rc EXCEPT ![w] = @ + 1]

\* request_counts after release_worker(w)
Released(rc, w) == IF w \in DOMAIN rc THEN [rc EXCEPT ![w] = @ - 1] ELSE rc

\* last_request_time after `self.last_request_time[w] = time.time()'
Touched(lrt, w) == IF w \in DOMAIN lrt THEN [lrt EXCEPT ![w] = now] ELSE lrt

\* the cleanup check made before the request is counted: `processed + 1'
LastRequest_MutEarly(p, t) == p + 1 >= t

\* the cleanup check without its test: cleanup after every request
LastRequest_Mut(p, t) == TRUE

\* `if request_tracker.processed == request_tracker.total'
LastRequest(p, t) == p = t

\* the size check with `<=' in place of `<'
BelowMaxWorkers_Mut(ws) == Len(ws) <= MAX_WORKERS

\* `if len(self.workers) < MAX_WORKERS'
BelowMaxWorkers(ws) == Len(ws) < MAX_WORKERS

\* get_or_create_worker without the creation lock
CreationLockFree_Mut == TRUE

\* `async with self.worker_creation_lock' can be entered
CreationLockFree == worker_creation_lock = NoTask

\* the routing loop giving up after the first failed dispatch as well
DeadlineExpired_Mut(r) ==
    now - start_time[r] > DEFAULT_TIMEOUT \/ failed[r] >= 1

\* the routing loop without its deadline
DeadlineExpired_MutNever(r) == FALSE

\* `if time.time() - start_time > DEFAULT_TIMEOUT'
DeadlineExpired(r) == now - start_time[r] > DEFAULT_TIMEOUT

\* cleanup_workers without the test for the permanent worker
Evictable_MutAll(w) == TRUE

\* cleanup_workers sparing the workers used within WORKER_IDLE_TIMEOUT
Evictable_Mut(w) ==
    w # Perm /\ now - last_request_time[w] > WORKER_IDLE_TIMEOUT

\* `if worker_id != self.permanent_worker_id' of cleanup_workers
Evictable(w) == w # Perm

\* `except aiohttp.ClientError' re-raising instead of `continue'
AfterClientError_Mut == "except"

\* where hash_string continues after `except aiohttp.ClientError'
AfterClientError == "loop"

\* where hash_string continues after a response with status != 200
AfterWorkerStatus == "except"

Init ==
    /\ workers = <<Perm>>
    /\ request_counts = [w \in {Perm} |-> 0]
    /\ last_request_time = [w \in {Perm} |-> 0]
    /\ lock = NoTask
    /\ worker_creation_lock = NoTask
    /\ processed = 0
    /\ total = 0
    /\ now = 0
    /\ remote = {Perm}
    /\ next_id = 1
    /\ delete_result = <<>>
    /\ pc = [r \in Requests |-> "start"]
    /\ worker = [r \in Requests |-> NoWorker]
    /\ start_time = [r \in Requests |-> 0]
    /\ exc = [r \in Requests |-> "none"]
    /\ resp = [r \in Requests |-> 0]
    /\ via = [r \in Requests |-> "none"]
    /\ instance_id = [r \in Requests |-> NoWorker]
    /\ attempt = [r \in Requests |-> 0]
    /\ todo = [r \in Requests |-> <<>>]
    /\ after = [r \in Requests |-> "none"]
    /\ failed = [r \in Requests |-> 0]

\* the clock advances
Tick ==
    /\ now < MaxTicks * TickStep
    /\ now' = now + TickStep
    /\ UNCHANGED failed
    /\ UNCHANGED <<workers, request_counts, last_request_time, lock,
                   worker_creation_lock, processed, total, remote, next_id,
                   delete_result, pc, worker, start_time, exc, resp, via,
                   instance_id, attempt, todo, after>>

\* The cleanup check that follows every exit of the routing loop: with
\* processed = p, either cleanup_workers starts (it takes self.lock and lists
\* the keys) and the coroutine continues at `next' afterwards, or the
\* coroutine continues at `next' at once.
CheckCleanup(r, p, next) ==
    IF LastRequest(p, total)
    THEN /\ pc' = [pc EXCEPT ![r] = "cleanup"]
         /\ lock' = r
         /\ todo' = [todo EXCEPT ![r] = workers]
         /\ after' = [after EXCEPT ![r] = next]
         /\ delete_result' = <<>>
    ELSE /\ pc' = [pc EXCEPT ![r] = next]
         /\ UNCHANGED <<lock, todo, after, delete_result>>

\* get_or_create_worker counting every request on the permanent worker
\* (lines 146-147) whichever worker it returns
Take_MutPerm(r, w, how) ==
    /\ request_counts' = Incremented(request_counts, Perm)
    /\ last_request_time' = Touched(last_request_time, Perm)
    /\ worker' = [worker EXCEPT ![r] = w]
    /\ via' = [via EXCEPT ![r] = how]
    /\ pc' = [pc EXCEPT ![r] = "dispatch"]

\* get_or_create_worker returning None instead of the least loaded worker,
\* so that hash_string goes round its loop (`if not worker: continue')
Take_Mut(r, w, how) ==
    IF how = "fallback"
    THEN /\ pc' = [pc EXCEPT ![r] = "loop"]
         /\ UNCHANGED <<request_counts, last_request_time, worker, via>>
    ELSE /\ request_counts' = Incremented(request_counts, w)
         /\ last_request_time' = Touched(last_request_time, w)
         /\ worker' = [worker EXCEPT ![r] = w]
         /\ via' = [via EXCEPT ![r] = how]
         /\ pc' = [pc EXCEPT ![r] = "dispatch"]

\* a block of get_or_create_worker returns worker w to request r
Take(r, w, how) ==
    /\ request_counts' = Incremented(request_counts, w)
    /\ last_request_time' = Touched(last_request_time, w)
    /\ worker' = [worker EXCEPT ![r] = w]
    /\ via' = [via EXCEPT ![r] = how]
    /\ pc' = [pc EXCEPT ![r] = "dispatch"]

\* hash_string, lines 295-300: the request is admitted
Admit(r) ==
    /\ pc[r] = "start"
    /\ IF r = 1 THEN TRUE ELSE pc[r - 1] # "start"
    /\ start_time' = [start_time EXCEPT ![r] = now]
    /\ total' = total + 1
    /\ pc' = [pc EXCEPT ![r] = "loop"]
    /\ UNCHANGED failed
    /\ UNCHANGED <<workers, request_counts, last_request_time, lock,
                   worker_creation_lock, processed, now, remote, next_id,
                   delete_result, worker, exc, resp, via, instance_id,
                   attempt, todo, after>>

\* hash_string, lines 302-315, with get_or_create_worker, lines 108-114:
\* the deadline check at the top of the routing loop, then the first scan
Route(r) ==
    /\ pc[r] = "loop"
    /\ lock = NoTask
    /\ IF DeadlineExpired(r)
       THEN /\ exc' = [exc EXCEPT ![r] = "timeout503"]
            /\ CheckCleanup(r, processed, "except")
            /\ UNCHANGED <<request_counts, last_request_time, worker, via>>
       ELSE LET w == FirstAvailable(workers, request_counts)
            IN  /\ exc' = [exc EXCEPT ![r] = "none"]
                /\ IF w # NoWorker
                   THEN Take(r, w, "scan")
                   ELSE /\ pc' = [pc EXCEPT ![r] = "wait_creation"]
                        /\ UNCHANGED <<request_counts, last_request_time,
                                       worker, via>>
                /\ UNCHANGED <<lock, todo, after, delete_result>>
    /\ UNCHANGED failed
    /\ UNCHANGED <<workers, worker_creation_lock, processed, total, now,
                   remote, next_id, start_time, resp, instance_id, attempt>>

\* get_or_create_worker without the second scan under the creation lock
EnterCreation_Mut(r) ==
    /\ pc[r] = "wait_creation"
    /\ CreationLockFree
    /\ lock = NoTask
    /\ \E ok \in BOOLEAN :
         IF BelowMaxWorkers(workers) /\ ok /\ next_id <= MaxInstances
         THEN /\ instance_id' = [instance_id EXCEPT ![r] = next_id]
              /\ next_id' = next_id + 1
              /\ remote' = remote \cup {next_id}
              /\ attempt' = [attempt EXCEPT ![r] = 0]
              /\ worker_creation_lock' = r
              /\ pc' = [pc EXCEPT ![r] = "probe"]
              /\ UNCHANGED <<request_counts, last_request_time, worker, via>>
         ELSE /\ Take(r, LeastLoaded(workers, request_counts), "fallback")
              /\ worker_creation_lock' = NoTask
              /\ UNCHANGED <<instance_id, attempt, remote, next_id>>
    /\ UNCHANGED failed
    /\ UNCHANGED <<workers, lock, processed, total, now, delete_result,
                   start_time, exc, resp, todo, after>>

\* get_or_create_worker, lines 117-143, with create_worker, lines 151-168:
\* the creation lock is taken, the scan is repeated, and when it finds
\* nothing either the branch call starts a new instance or the least loaded
\* worker is returned
EnterCreation(r) ==
    /\ pc[r] = "wait_creation"
    /\ CreationLockFree
    /\ lock = NoTask
    /\ LET w == FirstAvailable(workers, request_counts)
       IN  IF w # NoWorker
           THEN /\ Take(r, w, "recheck")
                /\ worker_creation_lock' = NoTask
                /\ UNCHANGED <<instance_id, attempt, remote, next_id>>
           ELSE \E ok \in BOOLEAN :
                  IF BelowMaxWorkers(workers) /\ ok /\ next_id <= MaxInstances
                  THEN /\ instance_id' = [instance_id EXCEPT ![r] = next_id]
                       /\ next_id' = next_id + 1
                       /\ remote' = remote \cup {next_id}
                       /\ attempt' = [attempt EXCEPT ![r] = 0]
                       /\ worker_creation_lock' = r
                       /\ pc' = [pc EXCEPT ![r] = "probe"]
                       /\ UNCHANGED <<request_counts, last_request_time,
                                      worker, via>>
                  ELSE /\ Take(r, LeastLoaded(workers, request_counts),
                               "fallback")
                       /\ worker_creation_lock' = NoTask
                       /\ UNCHANGED <<instance_id, attempt, remote, next_id>>
    /\ UNCHANGED failed
    /\ UNCHANGED <<workers, lock, processed, total, now, delete_result,
                   start_time, exc, resp, todo, after>>

\* create_worker, lines 172-212: one readiness attempt (instance info and
\* health probe); the first success registers the worker under self.lock
Probe(r) ==
    /\ pc[r] = "probe"
    /\ \E ready \in BOOLEAN :
         IF ready
         THEN /\ lock = NoTask
              /\ workers' = Append(workers, instance_id[r])
              /\ request_counts' = AddKey(request_counts, instance_id[r], 0)
              /\ last_request_time' =
                     AddKey(last_request_time, instance_id[r], now)
              /\ pc' = [pc EXCEPT ![r] = "fallback"]
              /\ attempt' = [attempt EXCEPT ![r] = 0]
              /\ instance_id' = [instance_id EXCEPT ![r] = NoWorker]
         ELSE /\ attempt' = [attempt EXCEPT ![r] = @ + 1]
              /\ pc' = [pc EXCEPT ![r] =
                          IF attempt[r] + 1 >= max_attempts THEN "teardown"
                                                            ELSE "probe"]
              /\ UNCHANGED <<workers, request_counts, last_request_time,
                             instance_id>>
    /\ UNCHANGED failed
    /\ UNCHANGED <<lock, worker_creation_lock, processed, total, now, remote,
                   next_id, delete_result, worker, start_time, exc, resp, via,
                   todo, after>>

\* create_worker letting a failure of its delete call escape to hash_string
Teardown_Mut(r) ==
    /\ pc[r] = "teardown"
    /\ lock = NoTask
    /\ instance_id' = [instance_id EXCEPT ![r] = NoWorker]
    /\ attempt' = [attempt EXCEPT ![r] = 0]
    /\ worker_creation_lock' = NoTask
    /\ \E ok \in BOOLEAN :
         IF ok
         THEN /\ remote' = remote \ {instance_id[r]}
              /\ Take(r, LeastLoaded(workers, request_counts), "fallback")
              /\ UNCHANGED exc
         ELSE /\ exc' = [exc EXCEPT ![r] = "other"]
              /\ pc' = [pc EXCEPT ![r] = "except"]
              /\ UNCHANGED <<remote, request_counts, last_request_time,
                             worker, via>>
    /\ UNCHANGED failed
    /\ UNCHANGED <<workers, lock, processed, total, now, next_id,
                   delete_result, start_time, resp, todo, after>>

\* create_worker, lines 214-222, with get_or_create_worker, lines 132-143:
\* the unit that never became ready is deleted (the delete may fail), then
\* the least loaded worker is returned
Teardown(r) ==
    /\ pc[r] = "teardown"
    /\ lock = NoTask
    /\ \E ok \in BOOLEAN :
         remote' = IF ok THEN remote \ {instance_id[r]} ELSE remote
    /\ instance_id' = [instance_id EXCEPT ![r] = NoWorker]
    /\ attempt' = [attempt EXCEPT ![r] = 0]
    /\ Take(r, LeastLoaded(workers, request_counts), "fallback")
    /\ worker_creation_lock' = NoTask
    /\ UNCHANGED failed
    /\ UNCHANGED <<workers, lock, processed, total, now, next_id,
                   delete_result, start_time, exc, resp, todo, after>>

\* get_or_create_worker keeping the creation lock when it returns
Fallback_Mut(r) ==
    /\ pc[r] = "fallback"
    /\ lock = NoTask
    /\ Take(r, LeastLoaded(workers, request_counts), "fallback")
    /\ UNCHANGED failed
    /\ UNCHANGED <<workers, lock, worker_creation_lock, processed, total,
                   now, remote, next_id, delete_result, start_time, exc,
                   resp, instance_id, attempt, todo, after>>

\* get_or_create_worker, lines 132-143, after create_worker registered a
\* worker: the least loaded worker is returned
Fallback(r) ==
    /\ pc[r] = "fallback"
    /\ lock = NoTask
    /\ Take(r, LeastLoaded(workers, request_counts), "fallback")
    /\ worker_creation_lock' = NoTask
    /\ UNCHANGED failed
    /\ UNCHANGED <<workers, lock, processed, total, now, remote, next_id,
                   delete_result, start_time, exc, resp, instance_id, attempt,
                   todo, after>>

\* hash_string, lines 317-357: the dispatch to the worker returns
Dispatch(r) ==
    /\ pc[r] = "dispatch"
    /\ lock = NoTask
    /\ via' = [via EXCEPT ![r] = "none"]
    /\ \E out \in {"ok", "non200", "client_error", "exception"} :
         /\ failed' = [failed EXCEPT ![r] =
                          IF out = "ok" THEN 0
                          ELSE IF @ < MaxCounted THEN @ + 1 ELSE @]
         /\ CASE out = "ok" ->
                /\ request_counts' = Released(request_counts, worker[r])
                /\ last_request_time' = Touched(last_request_time, worker[r])
                /\ processed' = processed + 1
                /\ resp' = [resp EXCEPT ![r] = 200]
                /\ worker' = [worker EXCEPT ![r] = NoWorker]
                /\ start_time' = [start_time EXCEPT ![r] = 0]
                /\ CheckCleanup(r, processed + 1, "done")
                /\ UNCHANGED exc
           [] out = "non200" ->
                /\ request_counts' = Released(request_counts, worker[r])
                /\ last_request_time' = Touched(last_request_time, worker[r])
                /\ exc' = [exc EXCEPT ![r] = "worker_status"]
                /\ CheckCleanup(r, processed, AfterWorkerStatus)
                /\ UNCHANGED <<processed, resp, worker, start_time>>
           [] out = "client_error" ->
                /\ request_counts' = Released(request_counts, worker[r])
                /\ last_request_time' = Touched(last_request_time, worker[r])
                /\ exc' = [exc EXCEPT ![r] = "client_error"]
                /\ CheckCleanup(r, processed, AfterClientError)
                /\ UNCHANGED <<processed, resp, worker, start_time>>
           [] out = "exception" ->
                /\ exc' = [exc EXCEPT ![r] = "other"]
                /\ pc' = [pc EXCEPT ![r] = "except"]
                /\ UNCHANGED <<request_counts, last_request_time, processed,
                               resp, worker, start_time, lock, todo, after,
                               delete_result>>
    /\ UNCHANGED <<workers, worker_creation_lock, total, now, remote, next_id,
                   instance_id, attempt>>

\* hash_string, lines 359-368: the outer `except Exception', which also
\* catches the HTTPException raised at lines 310 and 332
OuterExcept(r) ==
    /\ pc[r] = "except"
    /\ lock = NoTask
    /\ request_counts' = IF worker[r] # NoWorker
                         THEN Released(request_counts, worker[r])
                         ELSE request_counts
    /\ last_request_time' = IF worker[r] # NoWorker
                            THEN Touched(last_request_time, worker[r])
                            ELSE last_request_time
    /\ resp' = [resp EXCEPT ![r] = 500]
    /\ worker' = [worker EXCEPT ![r] = NoWorker]
    /\ start_time' = [start_time EXCEPT ![r] = 0]
    /\ exc' = [exc EXCEPT ![r] = "none"]
    /\ failed' = [failed EXCEPT ![r] = 0]
    /\ CheckCleanup(r, processed, "done")
    /\ UNCHANGED <<workers, worker_creation_lock, processed, total, now,
                   remote, next_id, via, instance_id, attempt>>

\* cleanup_workers, lines 242-257: one iteration of the loop over the keys
\* (with the result of its delete call), or the end of the
\* `async with self.lock' block
CleanupStep(r) ==
    /\ pc[r] = "cleanup"
    /\ lock = r
    /\ IF todo[r] = <<>>
       THEN /\ lock' = NoTask
            /\ pc' = [pc EXCEPT ![r] = after[r]]
            /\ after' = [after EXCEPT ![r] = "none"]
            /\ UNCHANGED <<workers, request_counts, last_request_time,
                           remote, delete_result, todo>>
       ELSE LET w == Head(todo[r])
            IN  /\ todo' = [todo EXCEPT ![r] = Tail(@)]
                /\ UNCHANGED <<lock, pc, after>>
                /\ IF ~Evictable(w)
                   THEN UNCHANGED <<workers, request_counts,
                                    last_request_time, remote, delete_result>>
                   ELSE \E res \in {"ok", "badstatus", "error"} :
                          /\ delete_result' = AddKey(delete_result, w, res)
                          /\ remote' = IF res = "ok" THEN remote \ {w}
                                                     ELSE remote
                          /\ IF res = "error"
                             THEN UNCHANGED <<workers, request_counts,
                                              last_request_time>>
                             ELSE /\ workers' = Remove(workers, w)
                                  /\ request_counts' =
                                         DropKey(request_counts, w)
                                  /\ last_request_time' =
                                         DropKey(last_request_time, w)
    /\ UNCHANGED failed
    /\ UNCHANGED <<worker_creation_lock, processed, total, now, next_id,
                   worker, start_time, exc, resp, via, instance_id, attempt>>

Next ==
    \/ Tick
    \/ \E r \in Requests : Admit(r)
    \/ \E r \in Requests : Route(r)
    \/ \E r \in Requests : EnterCreation(r)
    \/ \E r \in Requests : Probe(r)
    \/ \E r \in Requests : Teardown(r)
    \/ \E r \in Requests : Fallback(r)
    \/ \E r \in Requests : Dispatch(r)
    \/ \E r \in Requests : OuterExcept(r)
    \/ \E r \in Requests : CleanupStep(r)

Spec == Init /\ [][Next]_vars

\* The requests of the liveness specification: the first LiveRequests ones.
LiveSet == 1..LiveRequests

LiveNext ==
    \/ Tick
    \/ \E r \in LiveSet : Admit(r)
    \/ \E r \in LiveSet : Route(r)
    \/ \E r \in LiveSet : EnterCreation(r)
    \/ \E r \in LiveSet : Probe(r)
    \/ \E r \in LiveSet : Teardown(r)
    \/ \E r \in LiveSet : Fallback(r)
    \/ \E r \in LiveSet : Dispatch(r)
    \/ \E r \in LiveSet : OuterExcept(r)
    \/ \E r \in LiveSet : CleanupStep(r)

\* The scheduling of the event loop: time passes, every remote call returns
\* or fails, and every coroutine that can run (its lock, if it waits for
\* one, being free) is run.
Fairness ==
    /\ WF_vars(Tick)
    /\ \A r \in LiveSet :
         /\ WF_vars(Admit(r))
         /\ WF_vars(Route(r))
         /\ WF_vars(EnterCreation(r))
         /\ WF_vars(Probe(r))
         /\ WF_vars(Teardown(r))
         /\ WF_vars(Fallback(r))
         /\ WF_vars(Dispatch(r))
         /\ WF_vars(OuterExcept(r))
         /\ WF_vars(CleanupStep(r))

LiveSpec == Init /\ [][LiveNext]_vars /\ Fairness

\* the three dictionaries of WorkerManager have the same keys
TypeOK ==
    /\ Elems(workers) = DOMAIN request_counts
    /\ DOMAIN request_counts = DOMAIN last_request_time
    /\ lock \in Requests \cup {NoTask}
    /\ worker_creation_lock \in Requests \cup {NoTask}
    /\ processed \in 0..NumRequests
    /\ total \in 0..NumRequests
    /\ failed \in [Requests -> 0..MaxCounted]

\* ---- properties ----

\* request r has acquired a worker and not yet released it
Holds(r) == pc[r] = "dispatch" \/ (pc[r] = "except" /\ exc[r] = "other")

Holders(w) == {r \in Requests : Holds(r) /\ worker[r] = w}

Saturated == FirstAvailable(workers, request_counts) = NoWorker

AtMaxWorkers == Len(workers) = MAX_WORKERS

\* C1: every acquire is followed by exactly one release of the same worker:
\* in every state each worker's count is the number of requests that hold
\* it, so that once every admitted request has ended every count is 0.
C1_ExactlyOneRelease ==
    \A w \in DOMAIN request_counts :
        request_counts[w] = Cardinality(Holders(w))

\* C2: every worker's in-flight count is >= 0 in every reachable state.
C2_CountsNonNegative ==
    \A w \in DOMAIN request_counts : request_counts[w] >= 0

\* C3 (as claimed): every worker's in-flight count is at most
\* REQUESTS_PER_WORKER in every reachable state.
C3_CountsAtMostCapacity ==
    \A w \in DOMAIN request_counts : request_counts[w] <= REQUESTS_PER_WORKER

\* C3 (amended): a count is taken above REQUESTS_PER_WORKER only by the
\* least-loaded fallback of get_or_create_worker, never by the first scan
\* or the re-check.
C3_OnlyFallbackExceedsCapacity ==
    [][\A w \in (DOMAIN request_counts) \cap (DOMAIN request_counts') :
          (request_counts'[w] > request_counts[w]
             /\ request_counts'[w] > REQUESTS_PER_WORKER)
          => \E r \in Requests : /\ via'[r] = "fallback"
                                 /\ via[r] # "fallback"
                                 /\ worker'[r] = w]_vars

\* C3 witness: the pool is full and a worker carries more than its capacity
C3_Witness ==
    /\ AtMaxWorkers
    /\ \E w \in DOMAIN request_counts :
         request_counts[w] > REQUESTS_PER_WORKER

\* C4: the pool never holds more than MAX_WORKERS workers.
C4_PoolAtMostMaxWorkers == Len(workers) <= MAX_WORKERS

\* C4 witness: a full pool with every worker at capacity and a request
\* looking for a worker
C4_Witness ==
    /\ AtMaxWorkers
    /\ Saturated
    /\ \E r \in Requests : pc[r] = "wait_creation"

\* the requests whose create_worker call is in progress
Provisioning == {r \in Requests : pc[r] \in {"probe", "teardown"}}

\* C5: at most one create_worker call is in progress at any time, and it is
\* made by the holder of the creation lock.
C5_OneProvisioningAtATime ==
    /\ Cardinality(Provisioning) <= 1
    /\ \A r \in Provisioning : worker_creation_lock = r

\* C5 witness: one request provisions while another found no spare capacity
C5_Witness ==
    \E r1, r2 \in Requests : /\ pc[r1] = "probe"
                             /\ pc[r2] = "wait_creation"

C7_TimeoutStatus ==
    [][\A r \in Requests :
          (pc[r] = "except" /\ exc[r] = "timeout503" /\ pc'[r] # "except")
          => resp'[r] \in {503, 504}]_vars

C9_FallbackLeastLoaded ==
    [][\A r \in Requests :
          (via'[r] = "fallback" /\ via[r] # "fallback")
          => /\ worker'[r] \in DOMAIN request_counts
             /\ \A w \in DOMAIN request_counts :
                  request_counts[worker'[r]] <= request_counts[w]
             /\ request_counts' =
                  [request_counts EXCEPT ![worker'[r]] = @ + 1]]_vars

\* C9 witness: create_worker registered nothing and the fallback returned a
\* worker that was already at capacity
C9_Witness ==
    \E r \in Requests : /\ via[r] = "fallback"
                        /\ ~AtMaxWorkers
                        /\ request_counts[worker[r]] > REQUESTS_PER_WORKER

\* C10: when processed becomes equal to total, cleanup_workers starts; and
\* when a pass in which every delete call succeeded ends, the pool holds
\* the permanent worker alone.
C10_DrainTeardown ==
    /\ [][(processed < total /\ processed' = total')
          => \E r \in Requests : pc'[r] = "cleanup" /\ lock' = r]_vars
    /\ [][\A r \in Requests :
            (pc[r] = "cleanup" /\ pc'[r] # "cleanup"
               /\ \A w \in DOMAIN delete_result : delete_result[w] = "ok")
            => workers' = <<Perm>>]_vars

\* C10 witness: a pass has deleted a worker used at the current clock value
\* and left the permanent worker alone
C10_Witness ==
    /\ processed = total
    /\ lock = NoTask
    /\ workers = <<Perm>>
    /\ DOMAIN delete_result # {}
    /\ \A w \in DOMAIN delete_result : delete_result[w] = "ok"

\* C11: the permanent worker is in the pool in every reachable state, and
\* no cleanup pass issues a delete call for it or removes its record: it
\* stays in the three dictionaries and alive at the provisioning service,
\* and no pass records a delete result for it.
C11_PermanentWorkerKept ==
    /\ Perm \in Elems(workers)
    /\ Perm \in DOMAIN request_counts
    /\ Perm \in DOMAIN last_request_time
    /\ Perm \in remote
    /\ Perm \notin DOMAIN delete_result

\* C11 witness: a cleanup pass has gone through every key it listed, the
\* permanent worker's among them, and has issued a delete call for another
\* worker
C11_Witness ==
    \E r \in Requests : /\ pc[r] = "cleanup"
                        /\ todo[r] = <<>>
                        /\ DOMAIN delete_result # {}

\* C12: when a cleanup pass ends, a delete call has been made for every
\* worker other than the permanent one (a failed call stops nothing), and
\* such a worker's record is still in the pool if and only if its remote
\* deletion failed, i.e. its delete call raised or was answered with a
\* status other than 200 and 204.
C12_RecordKeptIffDeleteFailed ==
    [][\A r \in Requests :
          (pc[r] = "cleanup" /\ pc'[r] # "cleanup")
          => /\ \A w \in Elems(workers') \ {Perm} :
                  w \in DOMAIN delete_result
             /\ \A w \in DOMAIN delete_result :
                  (w \in Elems(workers')) <=> (delete_result[w] # "ok")]_vars

\* C13: when the last readiness attempt of create_worker fails, the delete
\* call for the new unit follows; the unit is not in the pool while it is
\* probed or deleted, and a key is added to the pool only by a successful
\* probe within the budget; whether the delete call succeeds or fails, the
\* request is then given a worker of the pool and dispatched, with no
\* exception raised and no response sent.
C13_FailedCreationFallsBack ==
    /\ [](\A r \in Provisioning : instance_id[r] \notin Elems(workers))
    /\ [][\A r \in Requests :
            /\ (pc[r] = "probe" /\ attempt'[r] >= max_attempts)
               => (pc'[r] = "teardown" /\ workers' = workers)
            /\ (pc[r] = "probe" /\ workers' # workers)
               => /\ attempt[r] < max_attempts
                  /\ workers' = Append(workers, instance_id[r])
            /\ (pc[r] = "teardown" /\ pc'[r] # "teardown")
               => /\ remote' \in {remote, remote \ {instance_id[r]}}
                  /\ workers' = workers
                  /\ instance_id[r] \notin Elems(workers')
                  /\ pc'[r] = "dispatch"
                  /\ worker'[r] \in Elems(workers')
                  /\ request_counts' =
                       [request_counts EXCEPT ![worker'[r]] = @ + 1]
                  /\ exc'[r] = exc[r]
                  /\ resp'[r] = resp[r]]_vars

\* C13 witness: before any cleanup pass, a unit that never became ready is
\* still alive after its delete call failed, it is not in the pool, and a
\* request has been dispatched to a worker given by the fallback
C13_Witness ==
    /\ processed = 0
    /\ Provisioning = {}
    /\ \E id \in remote : id \notin Elems(workers)
    /\ \E r \in Requests : pc[r] = "dispatch" /\ via[r] = "fallback"

\* C14 (as claimed): the dispatches of one request are limited by a fixed
\* maximum that does not depend on the deadline: a request that has had that
\* many failed dispatches is not dispatched again.  The maximum is taken to
\* be MaxCounted, the largest number the model counts to.
C14_RetriesBounded ==
    \A r \in Requests : pc[r] = "dispatch" => failed[r] < MaxCounted

\* C14 (amended): the dispatches of one request are limited by the deadline
\* alone: a request at the top of the loop whose deadline has not elapsed
\* always goes on to get a worker, however many of its dispatches failed,
\* and nothing between the top of the loop and the dispatch ends it.
C14_RetriesUntilDeadline ==
    [][\A r \in Requests :
          /\ (pc[r] = "loop" /\ pc'[r] # "loop"
                /\ now - start_time[r] <= DEFAULT_TIMEOUT)
             => /\ pc'[r] \in {"dispatch", "wait_creation"}
                /\ resp'[r] = 0
          /\ (pc[r] \in {"wait_creation", "probe", "teardown", "fallback"})
             => /\ pc'[r] \in {"wait_creation", "probe", "teardown",
                                "fallback", "dispatch"}
                /\ resp'[r] = 0]_vars

\* C14 witness: a request is dispatched once more, within its deadline,
\* after MaxCounted of its dispatches failed
C14_Witness ==
    \E r \in Requests : /\ pc[r] = "dispatch"
                        /\ failed[r] = MaxCounted
                        /\ now - start_time[r] <= DEFAULT_TIMEOUT

\* C15: every admitted request eventually ends with a response, even when
\* every dispatch fails: under the scheduling of LiveSpec a request at the
\* top of the loop is eventually done.  (The requests meant are those whose
\* deadline lies before the last value of the model's clock.)
C15_EveryRequestEnds ==
    \A r \in LiveSet :
        (pc[r] = "loop" /\ start_time[r] + DEFAULT_TIMEOUT < MaxTicks * TickStep)
        ~> (pc[r] = "done" /\ resp[r] # 0)

\* C15 witness: the deadline ends a request that had been dispatched and
\* had come back to the top of the loop after a failed dispatch
C15_Witness ==
    \E r \in Requests : /\ pc[r] = "except"
                        /\ exc[r] = "timeout503"
                        /\ failed[r] = MaxCounted

\* worker w is in the pool with no request in flight and its last activity
\* longer ago than WORKER_IDLE_TIMEOUT
IdleExpired(w) ==
    /\ w \in DOMAIN request_counts
    /\ request_counts[w] = 0
    /\ now - last_request_time[w] > WORKER_IDLE_TIMEOUT

\* C16: a worker other than the permanent one that has no request in flight
\* and whose last activity is longer ago than WORKER_IDLE_TIMEOUT is
\* eventually removed from the pool, unless it is used again before.
C16_IdleWorkerEvicted ==
    \A w \in 1..MaxInstances :
        IdleExpired(w) ~> (w \notin Elems(workers) \/ ~IdleExpired(w))

\* C17: create_worker is started only by a request that has just taken the
\* creation lock, at a moment when every worker's count is at least
\* REQUESTS_PER_WORKER and the pool holds fewer than MAX_WORKERS workers;
\* a request that takes the creation lock while some worker has spare
\* capacity (for instance the one another request has just registered)
\* is given such a worker and starts no instance.
C17_CreationOnlyAfterRecheck ==
    [][\A r \in Requests :
          /\ (pc[r] # "probe" /\ pc'[r] = "probe")
             => /\ pc[r] = "wait_creation"
                /\ worker_creation_lock = NoTask
                /\ worker_creation_lock' = r
                /\ \A w \in DOMAIN request_counts :
                     request_counts[w] >= REQUESTS_PER_WORKER
                /\ Len(workers) < MAX_WORKERS
          /\ (pc[r] = "wait_creation" /\ pc'[r] # "wait_creation"
                /\ \E w \in DOMAIN request_counts :
                     request_counts[w] < REQUESTS_PER_WORKER)
             => /\ pc'[r] = "dispatch"
                /\ via'[r] = "recheck"
                /\ worker'[r] \in DOMAIN request_counts
                /\ request_counts[worker'[r]] < REQUESTS_PER_WORKER
                /\ next_id' = next_id
                /\ remote' = remote]_vars

\* C17 witness: the re-check under the creation lock has given a request a
\* worker that another request created
C17_Witness ==
    \E r \in Requests : /\ pc[r] = "dispatch"
                        /\ via[r] = "recheck"
                        /\ worker[r] # Perm

\* a remote call of request r is outstanding: a readiness attempt, the
\* delete of a unit that never became ready, a dispatch, or the delete call
\* of the key cleanup_workers has come to
RemoteCallOutstanding(r) ==
    \/ pc[r] \in {"probe", "teardown", "dispatch"}
    \/ /\ pc[r] = "cleanup"
       /\ todo[r] # <<>>
       /\ Evictable(Head(todo[r]))

\* C18: self.lock is never held while a remote call of its holder is
\* outstanding.
C18_LockNotHeldAcrossRemoteCall ==
    \A r \in Requests : lock = r => ~RemoteCallOutstanding(r)

Newest == workers[Len(workers)]

\* C20 (as claimed): when create_worker has registered a worker, the request
\* that called it acquires that worker, whose count goes from 0 to 1.
C20_CreatorGetsNewWorker ==
    [][\A r \in Requests :
          (pc[r] = "fallback" /\ pc'[r] # "fallback")
          => /\ worker'[r] = Newest
             /\ request_counts[Newest] = 0
             /\ request_counts'[Newest] = 1]_vars

\* C20 (amended): when create_worker has registered a worker, the request
\* that called it acquires a least loaded worker of the pool, the first one
\* in the order of the dictionary: it is the new worker if and only if
\* every older worker then has a greater count than the new one.
C20_CreatorGetsLeastLoaded ==
    [][\A r \in Requests :
          (pc[r] = "fallback" /\ pc'[r] # "fallback")
          => /\ pc'[r] = "dispatch"
             /\ worker'[r] \in DOMAIN request_counts
             /\ \A w \in DOMAIN request_counts :
                  request_counts[worker'[r]] <= request_counts[w]
             /\ (worker'[r] = Newest)
                  <=> (\A i \in 1..(Len(workers) - 1) :
                         request_counts[workers[i]] > request_counts[Newest])
             /\ request_counts' =
                  [request_counts EXCEPT ![worker'[r]] = @ + 1]]_vars

\* C20 witness: create_worker has registered a worker and its caller is
\* about to choose while the permanent worker is no more loaded than the
\* new one
C20_Witness ==
    \E r \in Requests : /\ pc[r] = "fallback"
                        /\ Newest # Perm
                        /\ request_counts[Perm] <= request_counts[Newest]

\* C21: after a dispatch of request r to a worker failed and r went round
\* its loop, r's next dispatch goes to another worker whenever the pool
\* holds another worker.  (`worker' still names the worker that failed.)
C21_RetryOnDifferentWorker ==
    [][\A r \in Requests :
          (pc[r] # "dispatch" /\ pc'[r] = "dispatch"
             /\ failed[r] >= 1
             /\ \E w \in Elems(workers) : w # worker[r])
          => worker'[r] # worker[r]]_vars

\* C22: whenever get_or_create_worker returns to request r, it returns a
\* worker that is in the pool, that worker's count has risen by exactly 1
\* and every other count is unchanged; and it never returns without a
\* worker: a request looking for a worker does not come back to the top
\* of the loop before it has been dispatched.
C22_AcquireReturnsPoolWorker ==
    [][\A r \in Requests :
          /\ (pc[r] # "dispatch" /\ pc'[r] = "dispatch")
             => /\ worker'[r] # NoWorker
                /\ worker'[r] \in Elems(workers')
                /\ worker'[r] \in DOMAIN request_counts
                /\ request_counts' =
                     [request_counts EXCEPT ![worker'[r]] = @ + 1]
          /\ (pc[r] \in {"wait_creation", "probe", "teardown", "fallback"})
             => pc'[r] # "loop"]_vars

\* C22 witness: the three blocks of get_or_create_worker have each returned
\* a worker to a request that is being dispatched
C22_Witness ==
    \E r1, r2, r3 \in Requests :
        /\ pc[r1] = "dispatch" /\ via[r1] = "scan"
        /\ pc[r2] = "dispatch" /\ via[r2] = "recheck"
        /\ pc[r3] = "dispatch" /\ via[r3] = "fallback"

\* C23: while cleanup_workers runs, no other request is between its acquire
\* and its release or looking for a worker, no create_worker call is in
\* progress and every count is 0, so that every record removed has count
\* 0; and a request that holds a worker holds one that is in the pool.
C23_CleanupOnlyWhenIdle ==
    /\ \A r \in Requests :
         pc[r] = "cleanup"
         => /\ \A q \in Requests \ {r} : pc[q] \in {"start", "loop", "done"}
            /\ \A q \in Requests : ~Holds(q)
            /\ Provisioning = {}
            /\ worker_creation_lock = NoTask
            /\ \A w \in DOMAIN request_counts : request_counts[w] = 0
    /\ \A r \in Requests : Holds(r) => worker[r] \in DOMAIN request_counts

\* C23 witness: cleanup_workers is about to delete a worker that requests
\* have used, after every admitted request has succeeded
C23_Witness ==
    \E r \in Requests :
        /\ pc[r] = "cleanup"
        /\ todo[r] # <<>>
        /\ Head(todo[r]) # Perm
        /\ processed = total
        /\ total >= 2

====
